---- MODULE Spec2Model ----
(***************************************************************************)
(* Model of the fn-ffi adapters: RRefFn, RRefFnMut (borrowing), RBoxFn,    *)
(* RBoxFnMut, RBoxFnOnce (owning).  An adapter is a handle (`inner`, an    *)
(* address stored as usize) plus one or two monomorphised extern "C"       *)
(* function references.  The model keeps the memory the handles point to,  *)
(* the adapters' fields, and a log of every indirect invocation.  Callables*)
(* carry a body and captured state; parameters and results are values, so  *)
(* that what a call returns can be compared with a direct invocation.      *)
(***************************************************************************)
EXTENDS Integers, FiniteSets, Sequences, TLC

\* ---------------------------------------------------------------- bounds
NumAdapters == 2
NumCallables == 1
MaxAddr == 2
NumTypes == 2
MaxCalls == 2

Adapters == 1..NumAdapters
\* Environments: the one an owning adapter boxes at construction (numbered
\* like the adapter), and the callables the client keeps and lends.
BoxedEnvs == 1..NumAdapters
LentEnvs == (NumAdapters + 1)..(NumAdapters + NumCallables)
Envs == BoxedEnvs \cup LentEnvs
\* Addresses of values; 0 is the null address and is not among them.
Addrs == 1..MaxAddr
\* Concrete callable types (each closure expression has its own).
Types == 1..NumTypes

\* The value RBoxFnOnce::call stores into self.inner (rfnonce.rs:59) and
\* Drop compares against (rfnonce.rs:51).
Sentinel == 0

\* -------------------------------------------------------------- values
\* Parameters and results cross the adapter as one value each.
NoVal == [tag |-> "none", n |-> 0, s |-> <<>>]
Unit == [tag |-> "unit", n |-> 0, s |-> <<>>]
Panicked == [tag |-> "panic", n |-> 0, s |-> <<>>]
Num(n) == [tag |-> "num", n |-> n, s |-> <<>>]
Err(n) == [tag |-> "err", n |-> n, s |-> <<>>]
Text(s) == [tag |-> "text", n |-> 0, s |-> s]

\* The callables a client wraps, by what their body does:
\*   "get"      |_| captured.as_ref()              (rfn.rs return_captured_ref)
\*   "len"      |x| x + captured.len()             (rfnonce.rs test, move_value)
\*   "count"    |_| *cell.borrow_mut() += 1        (execute_lambda)
\*   "checked"  |x| a Result: Ok(x) if x <= captured.len(), else Err(x)
\*   "append"   |x| { str.extend(x.chars()); str.clone() }   (transform_moved)
FnCodes == {"get", "len", "count", "checked"}
FnMutCodes == FnCodes \cup {"append"}
FnOnceCodes == FnMutCodes

\* What a callable captured when it was made.
Captured(s) == [text |-> s, count |-> 0]
NoData == Captured(<<>>)

NumParams == {Num(1), Num(2)}
TextParams == {Text(<<"!">>), Text(<<"?", "?">>)}
Params == {Unit} \cup NumParams \cup TextParams

\* TParam of a callable: the parameters its type accepts.
ParamsFor(c) ==
    CASE c \in {"get", "count"} -> {Unit}
      [] c \in {"len", "checked"} -> NumParams
      [] c = "append" -> TextParams
      [] OTHER -> {}

\* One direct invocation of a callable with body c on captured state d:
\* the state it leaves and the value it returns.
Apply(c, d, p) ==
    CASE c = "get" -> [data |-> d, value |-> Text(d.text)]
      [] c = "len" -> [data |-> d, value |-> Num(p.n + Len(d.text))]
      [] c = "count" -> [data |-> [d EXCEPT !.count = @ + 1], value |-> Unit]
      [] c = "checked" ->
            [data |-> d,
             value |-> IF p.n <= Len(d.text) THEN Num(p.n) ELSE Err(p.n)]
      [] c = "append" ->
            [data |-> [d EXCEPT !.text = @ \o p.s], value |-> Text(d.text \o p.s)]
      [] OTHER -> [data |-> d, value |-> NoVal]

\* Direct invocations in a row, one per parameter of ps, oldest first.
RECURSIVE Repeat(_, _, _)
Repeat(c, d, ps) ==
    IF ps = <<>> THEN d ELSE Repeat(c, Apply(c, d, Head(ps)).data, Tail(ps))

\* A callable value as handed to from(): its body and its captured state.
Callable(c, s) == [code |-> c, data |-> Captured(s)]
Callables == {Callable(c, s) : c \in FnOnceCodes, s \in {<<"H">>, <<>>}}
\* The callables of the lifetime scenarios: the owning adapters wrap the
\* one of return_captured_ref, the borrow adapters the one of execute_lambda.
BoxedCallables == {Callable("get", <<"H">>)}
LentCallables == {Callable("count", <<"H">>)}

BorrowKinds == {"RRefFn", "RRefFnMut"}
OwningKinds == {"RBoxFn", "RBoxFnMut", "RBoxFnOnce"}

VARIABLES
    adapter,   \* slot -> the adapter struct and its position in its lifetime
    env,       \* environment id -> the captured state of one callable value
    heap,      \* address -> the environment most recently placed there
    trace,     \* every invocation made through a function reference
    ub,        \* a function reference was applied to a handle it cannot read
    aborted    \* the process was ended by a panic that may not unwind

vars == <<adapter, env, heap, trace, ub, aborted>>

\* ------------------------------------------------- function references
NoFn == [fn |-> "absent", of |-> "none", T |-> 0]
PtrFor(k, t) == [fn |-> "ptr", of |-> k, T |-> t]
CallerFor(k, t) == [fn |-> "caller", of |-> k, T |-> t]

\* Faulty variant: a teardown function generated for another type.
DropperForOther(k, t) == [fn |-> "dropper", of |-> k, T |-> (t % NumTypes) + 1]
\* dropper::<T, TParam, TResult>, generated with the handle in from().
DropperFor(k, t) == [fn |-> "dropper", of |-> k, T |-> t]

NoAdapter ==
    [kind |-> "none", state |-> "none", ptr |-> NoFn, caller |-> NoFn,
     remover |-> NoFn, inner |-> 0, local |-> 0, env |-> 0, calls |-> 0, drops |-> 0,
     result |-> "none", args |-> <<>>, rets |-> <<>>, seen |-> NoData,
     pending |-> NoVal]

NoEnvRec ==
    [state |-> "unalloc", storage |-> "none", ty |-> 0, addr |-> 0,
     releases |-> 0, runs |-> 0, paths |-> {}, code |-> "none",
     made |-> NoData, data |-> NoData]

\* A callable value that has just been placed at address h.
NewEnv(st, t, h, cl) ==
    [state |-> "live", storage |-> st, ty |-> t, addr |-> h,
     releases |-> 0, runs |-> 0, paths |-> {}, code |-> cl.code,
     made |-> cl.data, data |-> cl.data]

\* A constructed adapter of kind k for environment e of type t at h.
NewAdapter(k, e, h, p, c, r) ==
    [kind |-> k, state |-> "live", ptr |-> p, caller |-> c, remover |-> r,
     inner |-> h, local |-> 0, env |-> e, calls |-> 0, drops |-> 0,
     result |-> "none", args |-> <<>>, rets |-> <<>>, seen |-> NoData,
     pending |-> NoVal]

\* ------------------------------------------------------------- memory
\* The environments a handle value designates.
Tgt(h) == IF h \in Addrs THEN heap[h] ELSE {}

\* Addresses at which no value currently lives.
FreeAddrs == {h \in Addrs : \A e \in heap[h] : env[e].state # "live"}

\* Where the allocator (or the client's stack) may place a new value: any
\* free address.  Addresses never used before are interchangeable, so only
\* the lowest of them is tried.
Fresh(h) == heap[h] = {}
Placements == {h \in FreeAddrs : Fresh(h) => \A g \in Addrs : Fresh(g) => h <= g}

\* The type of a new callable: any type.  Types not used before are
\* interchangeable, so only the lowest of them is tried.
UsedTypes == {env[e].ty : e \in {d \in Envs : env[d].state # "unalloc"}}
NewTypes == {t \in Types : t \notin UsedTypes => \A u \in Types \ UsedTypes : t <= u}

\* The body of callable type t: a type has one body, fixed when the first
\* value of the type is made.
TypeCode(E, t) ==
    LET S == {e \in Envs : E[e].state # "unalloc" /\ E[e].ty = t}
    IN  IF S = {} THEN "none" ELSE E[CHOOSE e \in S : TRUE].code

\* A value of type t may have body c.
Typed(t, c) == TypeCode(env, t) \in {"none", c}

\* Calls made so far, over all adapters.
RECURSIVE SumCalls(_)
SumCalls(S) ==
    IF S = {} THEN 0
    ELSE LET a == CHOOSE x \in S : TRUE IN adapter[a].calls + SumCalls(S \ {a})

NextSlot(a) ==
    /\ adapter[a].state = "none"
    /\ \A b \in Adapters : b < a => adapter[b].state # "none"

NextEnv(e) ==
    /\ e \in LentEnvs
    /\ env[e].state = "unalloc"
    /\ \A d \in LentEnvs : d < e => env[d].state # "unalloc"

\* The part of the state the library's functions read and write.
Mem == [ad |-> adapter, env |-> env, trace |-> trace, ub |-> ub]

\* f reinterprets h as a reference to (or a Box of) its own type T.
ValidDeref(M, f, h) ==
    \E e \in Tgt(h) : M.env[e].state = "live" /\ M.env[e].ty = f.T

\* An indirect call through a stored function reference.
Invoke(M, a, f, h) ==
    [M EXCEPT !.trace = @ \cup {[fn |-> f, handle |-> h, by |-> a, hit |-> Tgt(h)]},
              !.ub = @ \/ ~ValidDeref(M, f, h)]

\* Faulty variant: the dispatch function runs the callable on a copy of
\* what the handle designates.
RunBodyOnCopy(M, a, f, h, p) ==
    LET c == TypeCode(M.env, f.T)
        M1 == [M EXCEPT !.env = [e \in Envs |->
                 IF e \in Tgt(h) THEN [@[e] EXCEPT !.runs = @ + 1] ELSE @[e]]]
    IN  IF Tgt(h) = {} THEN [M1 EXCEPT !.ad[a].pending = NoVal]
        ELSE LET e == CHOOSE x \in Tgt(h) : TRUE
             IN  [M1 EXCEPT !.ad[a].pending = Apply(c, M.env[e].data, p).value]
\* The body of f's type T runs, with parameter p, on the environment
\* behind h: (f)(p) after f = &*(that as *const T) (or &mut, or the Box).
RunBody(M, a, f, h, p) ==
    LET c == TypeCode(M.env, f.T)
        M1 == [M EXCEPT !.env = [e \in Envs |->
                 IF e \in Tgt(h)
                 THEN [@[e] EXCEPT !.runs = @ + 1,
                                   !.data = Apply(c, @, p).data]
                 ELSE @[e]]]
    IN  IF Tgt(h) = {} THEN [M1 EXCEPT !.ad[a].pending = NoVal]
        ELSE LET e == CHOOSE x \in Tgt(h) : TRUE
             IN  [M1 EXCEPT !.ad[a].pending = Apply(c, M.env[e].data, p).value]

\* The value behind h is dropped (and a Box's allocation freed).
ReleaseEnv(M, h, path) ==
    [M EXCEPT !.env = [e \in Envs |->
        IF e \in Tgt(h)
        THEN [@[e] EXCEPT !.state = "released", !.releases = @ + 1,
                          !.paths = @ \cup {path}]
        ELSE @[e]]]

\* dropper::<T>(that): drop(Box::from_raw(that as *mut T)).
Dropper(M, a, h) ==
    LET M1 == Invoke(M, a, M.ad[a].remover, h)
        M2 == [M1 EXCEPT !.ad[a].drops = @ + 1]
    IN  ReleaseEnv(M2, h, "dropper")

Commit(M) ==
    /\ adapter' = M.ad
    /\ env' = M.env
    /\ trace' = M.trace
    /\ ub' = M.ub

Init ==
    /\ adapter = [a \in Adapters |-> NoAdapter]
    /\ env = [e \in Envs |-> NoEnvRec]
    /\ heap = [h \in Addrs |-> {}]
    /\ trace = {}
    /\ ub = FALSE
    /\ aborted = FALSE

\* ------------------------------------------------------- construction
\* Box::new(inner); Box::into_raw(..) as usize; Self { caller, remover, inner }.
FromBox(a, k, t, h, cl) ==
    /\ ~aborted
    /\ NextSlot(a)
    /\ h \in Placements
    /\ t \in NewTypes
    /\ Typed(t, cl.code)
    /\ env' = [env EXCEPT ![a] = NewEnv("heap", t, h, cl)]
    /\ heap' = [heap EXCEPT ![h] = {a}]
    /\ adapter' = [adapter EXCEPT ![a] =
          NewAdapter(k, a, h, NoFn, CallerFor(k, t), DropperFor(k, t))]
    /\ UNCHANGED <<trace, ub, aborted>>

\* impl<TFn: Fn(TParam) -> TResult> From<TFn> for RBoxFn
FromRBoxFn(a, t, h, cl) ==
    /\ cl.code \in FnCodes
    /\ FromBox(a, "RBoxFn", t, h, cl)

\* impl<TFn: FnMut(TParam) -> TResult> From<TFn> for RBoxFnMut
FromRBoxFnMut(a, t, h, cl) ==
    /\ cl.code \in FnMutCodes
    /\ FromBox(a, "RBoxFnMut", t, h, cl)

\* impl<T: FnOnce(TParam) -> TResult> From<T> for RBoxFnOnce
FromRBoxFnOnce(a, t, h, cl) ==
    /\ cl.code \in FnOnceCodes
    /\ FromBox(a, "RBoxFnOnce", t, h, cl)

\* Adapters that currently borrow environment e.
Borrowers(e) ==
    {b \in Adapters : /\ adapter[b].kind \in BorrowKinds
                      /\ adapter[b].state \in {"live", "calling"}
                      /\ adapter[b].env = e}

\* A callable value held by the client, outside any adapter.
OwnerCreate(e, t, h, cl) ==
    /\ ~aborted
    /\ NextEnv(e)
    /\ h \in Placements
    /\ t \in NewTypes
    /\ Typed(t, cl.code)
    /\ env' = [env EXCEPT ![e] = NewEnv("ext", t, h, cl)]
    /\ heap' = [heap EXCEPT ![h] = {e}]
    /\ UNCHANGED <<adapter, trace, ub, aborted>>

\* The client's value goes out of scope; the borrow 'a has ended by then.
OwnerDrop(e) ==
    /\ ~aborted
    /\ env[e].state = "live"
    /\ env[e].storage = "ext"
    /\ Borrowers(e) = {}
    /\ Commit(ReleaseEnv(Mem, env[e].addr, "owner"))
    /\ UNCHANGED <<heap, aborted>>

\* transmute(&T) -> usize; Self { ptr: ptr::<T, ..>, inner, p: PhantomData }.
FromRef(a, k, e) ==
    /\ ~aborted
    /\ NextSlot(a)
    /\ env[e].state = "live"
    /\ env[e].storage = "ext"
    /\ adapter' = [adapter EXCEPT ![a] =
          NewAdapter(k, e, env[e].addr, PtrFor(k, env[e].ty), NoFn, NoFn)]
    /\ UNCHANGED <<env, heap, trace, ub, aborted>>

\* From<&'a T>: any number of shared borrows, none while borrowed mutably.
FromRRefFn(a, e) ==
    /\ env[e].code \in FnCodes
    /\ \A b \in Borrowers(e) : adapter[b].kind = "RRefFn"
    /\ FromRef(a, "RRefFn", e)

\* From<&'a mut T>: the borrow is exclusive.
FromRRefFnMut(a, e) ==
    /\ env[e].code \in FnMutCodes
    /\ Borrowers(e) = {}
    /\ FromRef(a, "RRefFnMut", e)

\* ---------------------------------------------------------------- call
CanCall(a, k, p) ==
    /\ ~aborted
    /\ adapter[a].kind = k
    /\ adapter[a].state = "live"
    /\ p \in ParamsFor(env[adapter[a].env].code)
    /\ SumCalls(Adapters) < MaxCalls

\* (self.f)(self.inner, p): the dispatch function is entered and the
\* callable's body starts on the environment the handle designates.
Dispatch(M, a, f, h, p) ==
    LET M1 == Invoke(M, a, f, h)
        M2 == RunBody(M1, a, f, h, p)
    IN  [M2 EXCEPT !.ad[a].calls = @ + 1, !.ad[a].state = "calling",
                   !.ad[a].args = Append(@, p),
                   !.ad[a].seen = M.env[M.ad[a].env].data]

CallRRefFn(a, p) ==
    /\ CanCall(a, "RRefFn", p)
    /\ Commit(Dispatch(Mem, a, adapter[a].ptr, adapter[a].inner, p))
    /\ UNCHANGED <<heap, aborted>>

CallRRefFnMut(a, p) ==
    /\ CanCall(a, "RRefFnMut", p)
    /\ Commit(Dispatch(Mem, a, adapter[a].ptr, adapter[a].inner, p))
    /\ UNCHANGED <<heap, aborted>>

CallRBoxFn(a, p) ==
    /\ CanCall(a, "RBoxFn", p)
    /\ Commit(Dispatch(Mem, a, adapter[a].caller, adapter[a].inner, p))
    /\ UNCHANGED <<heap, aborted>>

CallRBoxFnMut(a, p) ==
    /\ CanCall(a, "RBoxFnMut", p)
    /\ Commit(Dispatch(Mem, a, adapter[a].caller, adapter[a].inner, p))
    /\ UNCHANGED <<heap, aborted>>

\* Faulty variants: the stored handle is not overwritten; the handle is
\* captured only after it was overwritten.
OnceCallKeepsHandle(ad) == [ad EXCEPT !.local = ad.inner]
OnceCallZeroesFirst(ad) == [ad EXCEPT !.inner = Sentinel, !.local = Sentinel]
\* let inner = self.inner; self.inner = 0;
OnceCallPrologue(ad) == [ad EXCEPT !.local = ad.inner, !.inner = Sentinel]

\* RBoxFnOnce::call up to the point where caller::<T> runs the callable.
CallRBoxFnOnce(a, p) ==
    /\ CanCall(a, "RBoxFnOnce", p)
    /\ LET M1 == [Mem EXCEPT !.ad[a] = OnceCallPrologue(adapter[a])]
       IN  Commit(Dispatch(M1, a, M1.ad[a].caller, M1.ad[a].local, p))
    /\ UNCHANGED <<heap, aborted>>

\* ---------------------------------------------------------------- drop
\* Faulty variant: dropping a borrow adapter drops what it borrowed.
RefDropReleases(M, a) == ReleaseEnv(M, M.ad[a].inner, "dropper")
\* RRefFn / RRefFnMut have no Drop impl and no field with drop glue.
RefDrop(M, a) == M

\* Faulty variant: no Drop impl, the Box is leaked.
BoxDropForgets(M, a) == M
\* Drop for RBoxFn: (self.remover)(self.inner).
BoxDrop(M, a) == Dropper(M, a, M.ad[a].inner)

\* Faulty variant: no Drop impl, the Box is leaked.
BoxMutDropForgets(M, a) == M
\* Drop for RBoxFnMut: (self.remover)(self.inner).
BoxMutDrop(M, a) == Dropper(M, a, M.ad[a].inner)

\* Faulty variant: the remover is invoked without looking at the handle.
OnceDropUnchecked(M, a) == Dropper(M, a, M.ad[a].inner)
\* Drop for RBoxFnOnce: if self.inner != 0 { (self.remover)(self.inner) }.
OnceDrop(M, a) ==
    IF M.ad[a].inner # Sentinel THEN Dropper(M, a, M.ad[a].inner) ELSE M

Dead(M, a) == [M EXCEPT !.ad[a].state = "dead"]

CanDrop(a, k) ==
    /\ ~aborted
    /\ adapter[a].kind = k
    /\ adapter[a].state = "live"

DropRRefFn(a) ==
    /\ CanDrop(a, "RRefFn")
    /\ Commit(Dead(RefDrop(Mem, a), a))
    /\ UNCHANGED <<heap, aborted>>

DropRRefFnMut(a) ==
    /\ CanDrop(a, "RRefFnMut")
    /\ Commit(Dead(RefDrop(Mem, a), a))
    /\ UNCHANGED <<heap, aborted>>

DropRBoxFn(a) ==
    /\ CanDrop(a, "RBoxFn")
    /\ Commit(Dead(BoxDrop(Mem, a), a))
    /\ UNCHANGED <<heap, aborted>>

DropRBoxFnMut(a) ==
    /\ CanDrop(a, "RBoxFnMut")
    /\ Commit(Dead(BoxMutDrop(Mem, a), a))
    /\ UNCHANGED <<heap, aborted>>

DropRBoxFnOnce(a) ==
    /\ CanDrop(a, "RBoxFnOnce")
    /\ Commit(Dead(OnceDrop(Mem, a), a))
    /\ UNCHANGED <<heap, aborted>>

\* ------------------------------------------------- end of a dispatch
InCall(a) ==
    /\ ~aborted
    /\ adapter[a].state = "calling"

\* Faulty variant: call takes `&mut self` and leaves the adapter usable.
OnceReceiverByRef == "ref"
\* RBoxFnOnce::call takes `mut self`: the adapter is moved into the call
\* and dropped when the call's frame is left.
OnceReceiver == "value"

\* caller::<T> of RBoxFnOnce is left: the Box it rebuilt from the handle
\* has been consumed; then the frame of RBoxFnOnce::call is left.
OnceLeave(M, a) ==
    LET M1 == ReleaseEnv(M, M.ad[a].local, "caller")
    IN  IF OnceReceiver = "value"
        THEN Dead(OnceDrop(M1, a), a)
        ELSE [M1 EXCEPT !.ad[a].state = "live"]

\* Faulty variant: the dispatch function takes the environment by value,
\* so that leaving it drops the environment.
BorrowLeaveReleases(M, a) ==
    [ReleaseEnv(M, M.ad[a].inner, "caller") EXCEPT !.ad[a].state = "live"]
\* A dispatch function that only borrows the environment is left.
BorrowLeave(M, a) == [M EXCEPT !.ad[a].state = "live"]

Leave(M, a) ==
    IF M.ad[a].kind = "RBoxFnOnce" THEN OnceLeave(M, a) ELSE BorrowLeave(M, a)

\* Faulty variant: the dispatch function's result is not passed on.
ReturnedNothing(M, a) == Unit
\* (self.caller)(self.inner, p) is the tail expression of call().
Returned(M, a) == M.ad[a].pending

\* What the caller of call() gets: the callable's value, or its panic.
Outcome(M, a, r) ==
    [M EXCEPT !.ad[a].result = r,
              !.ad[a].rets = Append(@, IF r = "value" THEN Returned(M, a)
                                       ELSE Panicked),
              !.ad[a].pending = NoVal]

\* The callable returns its result.
Returns(a) ==
    /\ InCall(a)
    /\ Commit(Outcome(Leave(Mem, a), a, "value"))
    /\ UNCHANGED <<heap, aborted>>

\* The callable panics and the panic unwinds through the dispatch function
\* (toolchains in which an extern "C" frame lets a panic pass).
Unwinds(a) ==
    /\ InCall(a)
    /\ Commit(Outcome(Leave(Mem, a), a, "panic"))
    /\ UNCHANGED <<heap, aborted>>

\* The callable panics and the process is ended at the extern "C" frame;
\* the frames below it may or may not have been cleaned up before.
Aborts(a, cleaned) ==
    /\ InCall(a)
    /\ cleaned => adapter[a].kind = "RBoxFnOnce"
    /\ aborted' = TRUE
    /\ IF cleaned /\ adapter[a].kind = "RBoxFnOnce"
       THEN Commit(ReleaseEnv(Mem, adapter[a].local, "caller"))
       ELSE UNCHANGED <<adapter, env, trace, ub>>
    /\ UNCHANGED heap

\* How a call in progress ends.
Finish ==
    \/ \E a \in Adapters : Returns(a)
    \/ \E a \in Adapters : Unwinds(a)
    \/ \E a \in Adapters, cleaned \in BOOLEAN : Aborts(a, cleaned)

\* What a client can do with owning adapters in the slots A, wrapping
\* callables from C.
OwningOpsOn(A, C) ==
    \/ \E a \in A, t \in Types, h \in Addrs, cl \in C :
          FromRBoxFn(a, t, h, cl)
    \/ \E a \in A, t \in Types, h \in Addrs, cl \in C :
          FromRBoxFnMut(a, t, h, cl)
    \/ \E a \in A, t \in Types, h \in Addrs, cl \in C :
          FromRBoxFnOnce(a, t, h, cl)
    \/ \E a \in A, p \in Params : CallRBoxFn(a, p)
    \/ \E a \in A, p \in Params : CallRBoxFnMut(a, p)
    \/ \E a \in A, p \in Params : CallRBoxFnOnce(a, p)
    \/ \E a \in A : DropRBoxFn(a)
    \/ \E a \in A : DropRBoxFnMut(a)
    \/ \E a \in A : DropRBoxFnOnce(a)

\* What a client can do with borrow adapters in the slots A and callables
\* from C that it keeps itself.
BorrowOpsOn(A, C) ==
    \/ \E e \in Envs, t \in Types, h \in Addrs, cl \in C :
          OwnerCreate(e, t, h, cl)
    \/ \E e \in Envs : OwnerDrop(e)
    \/ \E a \in A, e \in Envs : FromRRefFn(a, e)
    \/ \E a \in A, e \in Envs : FromRRefFnMut(a, e)
    \/ \E a \in A, p \in Params : CallRRefFn(a, p)
    \/ \E a \in A, p \in Params : CallRRefFnMut(a, p)
    \/ \E a \in A : DropRRefFn(a)
    \/ \E a \in A : DropRRefFnMut(a)

\* The slot of the adapter a client with a single adapter uses.
FirstSlot == {a \in Adapters : \A b \in Adapters : a <= b}

OwningOps == OwningOpsOn(Adapters, BoxedCallables)
BorrowOps == BorrowOpsOn(Adapters, LentCallables)

Next == OwningOps \/ BorrowOps \/ Finish
\* No callable is kept by the client / no callable was boxed.
NoneLent == \A e \in LentEnvs : env[e].state = "unalloc"
NoneBoxed == \A e \in BoxedEnvs : env[e].state = "unalloc"

NextCall ==
    \/ NoneLent /\ OwningOpsOn(FirstSlot, Callables)
    \/ NoneBoxed /\ BorrowOpsOn(FirstSlot, Callables)
    \/ Finish
NextOwning == OwningOps \/ Finish
NextBorrow == BorrowOps \/ Finish

\* All five adapters together.
Spec == Init /\ [][Next]_vars
\* A client that uses owning adapters only.
SpecOwning == Init /\ [][NextOwning]_vars
\* A client that uses borrow adapters only.
SpecBorrow == Init /\ [][NextBorrow]_vars
\* A client with one adapter, of any kind, that wraps a callable of any
\* body and passes any parameter the callable accepts; it either boxes the
\* callable or keeps it and lends it.
SpecCall == Init /\ [][NextCall]_vars

\* ------------------------------------------------------------- claims
Constructed(a) == adapter[a].state # "none"
IsOwning(a) == adapter[a].kind \in OwningKinds
IsBorrow(a) == adapter[a].kind \in BorrowKinds
IsOnce(a) == adapter[a].kind = "RBoxFnOnce"
EnvOf(a) == env[adapter[a].env]
InvocationsBy(T, a) == {r \in T : r.by = a}

\* C1: the environment of an owning adapter is released at most once in
\* every reachable state, and exactly once when the adapter has been
\* discarded, whatever calls were made in between.
C1_ReleasedExactlyOnce ==
    \A a \in Adapters : IsOwning(a) =>
        /\ EnvOf(a).releases <= 1
        /\ adapter[a].state = "dead" =>
              EnvOf(a).releases = 1 /\ EnvOf(a).state = "released"

C1_Witness ==
    /\ \E a \in Adapters :
          /\ IsOnce(a) /\ adapter[a].state = "dead"
          /\ adapter[a].calls = 1 /\ EnvOf(a).releases = 1
    /\ \E a \in Adapters :
          /\ adapter[a].kind = "RBoxFn" /\ adapter[a].state = "dead"
          /\ adapter[a].calls = 1 /\ EnvOf(a).releases = 1

\* C2: for an RBoxFnOnce the consuming dispatch function and the teardown
\* function never both run on the environment: once call was invoked the
\* teardown is never invoked and the release is the dispatch function's;
\* without a call the release is the teardown's.
C2_OnceSingleReleasePath ==
    \A a \in Adapters : IsOnce(a) =>
        /\ ~({"caller", "dropper"} \subseteq EnvOf(a).paths)
        /\ adapter[a].calls > 0 =>
              /\ adapter[a].drops = 0
              /\ \A r \in InvocationsBy(trace, a) : r.fn.fn # "dropper"
              /\ EnvOf(a).paths \subseteq {"caller"}
              /\ adapter[a].state = "dead" => EnvOf(a).paths = {"caller"}
        /\ adapter[a].calls = 0 =>
              /\ EnvOf(a).paths \subseteq {"dropper"}
              /\ adapter[a].state = "dead" => EnvOf(a).paths = {"dropper"}

C2_Witness ==
    /\ \E a \in Adapters :
          /\ IsOnce(a) /\ adapter[a].state = "dead"
          /\ adapter[a].calls = 1 /\ EnvOf(a).paths = {"caller"}
    /\ \E a \in Adapters :
          /\ IsOnce(a) /\ adapter[a].state = "dead"
          /\ adapter[a].calls = 0 /\ EnvOf(a).paths = {"dropper"}

\* C3: the dispatch function of an RBoxFnOnce is invoked at most once, its
\* callable runs at most once, and once call has started the adapter never
\* becomes callable again and no further call on it happens.
C3_OnceCalledAtMostOnce ==
    /\ [](\A a \in Adapters : IsOnce(a) =>
            /\ adapter[a].calls <= 1
            /\ EnvOf(a).runs <= 1)
    /\ [][\A a \in Adapters :
            (IsOnce(a) /\ adapter[a].state \in {"calling", "dead"}) =>
                /\ adapter'[a].calls = adapter[a].calls
                /\ adapter'[a].state \in {"calling", "dead"}
                /\ InvocationsBy(trace', a) \ InvocationsBy(trace, a) \subseteq
                      {r \in trace' : r.fn.fn = "dropper"}]_vars

C3_Witness ==
    \E a \in Adapters :
        /\ IsOnce(a) /\ adapter[a].state = "dead"
        /\ adapter[a].calls = 1 /\ EnvOf(a).runs = 1
        /\ SumCalls(Adapters) < MaxCalls

\* C4: while the dispatch function of an RBoxFnOnce is executing, the
\* stored handle is already 0 and the handle it was invoked with is the
\* captured, non-zero handle made at construction.
C4_OnceHandleZeroWhileDispatching ==
    \A a \in Adapters : (IsOnce(a) /\ adapter[a].state = "calling") =>
        /\ adapter[a].inner = Sentinel
        /\ adapter[a].local # Sentinel
        /\ adapter[a].local = EnvOf(a).addr
        /\ InvocationsBy(trace, a) =
              {[fn |-> adapter[a].caller, handle |-> adapter[a].local,
                by |-> a, hit |-> {adapter[a].env}]}

C4_Witness ==
    \E a \in Adapters :
        /\ IsOnce(a) /\ adapter[a].state = "calling"
        /\ adapter[a].inner = Sentinel
        /\ EnvOf(a).runs = 1 /\ EnvOf(a).state = "live"

\* C5: when an RBoxFnOnce is discarded, the teardown function is invoked,
\* with the stored handle, if and only if the stored handle is not 0; with
\* a stored handle of 0 the discard invokes nothing and releases nothing.
C5_OnceDiscardChecksSentinel ==
    [][\A a \in Adapters :
        (IsOnce(a) /\ adapter[a].state # "dead" /\ adapter'[a].state = "dead") =>
            IF adapter[a].inner # Sentinel
            THEN /\ adapter'[a].drops = adapter[a].drops + 1
                 /\ InvocationsBy(trace', a) \ InvocationsBy(trace, a) =
                       {[fn |-> adapter[a].remover, handle |-> adapter[a].inner,
                         by |-> a, hit |-> {adapter[a].env}]}
                 /\ "dropper" \in env'[adapter[a].env].paths
            ELSE /\ adapter'[a].drops = adapter[a].drops
                 /\ InvocationsBy(trace', a) = InvocationsBy(trace, a)
                 /\ "dropper" \notin env'[adapter[a].env].paths]_vars

C5_Witness ==
    /\ \E a \in Adapters :
          /\ IsOnce(a) /\ adapter[a].state = "dead"
          /\ adapter[a].inner = Sentinel /\ adapter[a].drops = 0
    /\ \E a \in Adapters :
          /\ IsOnce(a) /\ adapter[a].state = "dead"
          /\ adapter[a].inner # Sentinel /\ adapter[a].drops = 1

\* C6: an owning adapter that is never called leaves the environment's
\* release marker unset until discard and sets it exactly once at discard,
\* through the teardown function; the callable's body never runs.
C6_UncalledDiscardTearsDownOnce ==
    \A a \in Adapters : (IsOwning(a) /\ adapter[a].calls = 0) =>
        /\ EnvOf(a).runs = 0
        /\ adapter[a].state = "live" =>
              /\ EnvOf(a).releases = 0
              /\ EnvOf(a).state = "live"
              /\ adapter[a].drops = 0
        /\ adapter[a].state = "dead" =>
              /\ EnvOf(a).releases = 1
              /\ EnvOf(a).paths = {"dropper"}
              /\ adapter[a].drops = 1

C6_Witness ==
    /\ \E a \in Adapters :
          /\ adapter[a].kind = "RBoxFnMut" /\ adapter[a].state = "dead"
          /\ adapter[a].calls = 0 /\ EnvOf(a).releases = 1
    /\ \E a \in Adapters :
          /\ IsOnce(a) /\ adapter[a].state = "dead"
          /\ adapter[a].calls = 0 /\ EnvOf(a).releases = 1

\* C7: a borrow adapter never releases the environment it refers to: it
\* invokes nothing but its dispatch function, its discard leaves every
\* environment as it was, and the environment is released by its owner
\* alone, so it is still live after the adapter is gone.
C7_BorrowNeverReleases ==
    /\ [](\A a \in Adapters : IsBorrow(a) =>
            /\ adapter[a].drops = 0
            /\ \A r \in InvocationsBy(trace, a) : r.fn.fn = "ptr"
            /\ EnvOf(a).paths \subseteq {"owner"}
            /\ EnvOf(a).releases <= 1
            /\ adapter[a].state \in {"live", "calling"} => EnvOf(a).state = "live")
    /\ [][\A a \in Adapters :
            (IsBorrow(a) /\ adapter[a].state = "live" /\ adapter'[a].state = "dead") =>
                /\ env' = env
                /\ heap' = heap
                /\ trace' = trace]_vars

C7_Witness ==
    \E a \in Adapters, b \in Adapters :
        /\ adapter[a].kind = "RRefFn" /\ adapter[a].state = "dead"
        /\ adapter[a].calls = 1
        /\ EnvOf(a).state = "live" /\ EnvOf(a).runs = 2
        /\ adapter[b].kind = "RRefFnMut" /\ adapter[b].state = "dead"
        /\ adapter[b].calls = 1 /\ adapter[b].env = adapter[a].env

\* C8: every invocation of a dispatch or teardown function passes the
\* handle made in the same construction as the function: the handle is the
\* address of the invoking adapter's own environment, whose type is the
\* one the function was generated for; and no step changes the function
\* references of a constructed adapter.
C8_HandlePairedWithOwnFunctions ==
    /\ [](\A r \in trace :
            /\ r.fn \in {adapter[r.by].ptr, adapter[r.by].caller, adapter[r.by].remover}
            /\ r.fn.fn # "absent"
            /\ r.fn.of = adapter[r.by].kind
            /\ r.handle = EnvOf(r.by).addr
            /\ r.hit = {adapter[r.by].env}
            /\ r.fn.T = EnvOf(r.by).ty)
    /\ [][\A a \in Adapters : Constructed(a) =>
            /\ adapter'[a].ptr = adapter[a].ptr
            /\ adapter'[a].caller = adapter[a].caller
            /\ adapter'[a].remover = adapter[a].remover]_vars

C8_Witness ==
    \E a \in Adapters, b \in Adapters :
        /\ a # b
        /\ IsOwning(a) /\ IsOwning(b)
        /\ adapter[a].state = "dead" /\ adapter[b].state = "dead"
        /\ EnvOf(a).addr = EnvOf(b).addr
        /\ EnvOf(a).ty # EnvOf(b).ty
        /\ \E r \in InvocationsBy(trace, a) : r.fn.fn = "caller"
        /\ \E r \in InvocationsBy(trace, b) : r.fn.fn = "dropper"

\* The adapters whose stored handle designates environment e.
Holders(e) ==
    {a \in Adapters : /\ IsOwning(a)
                      /\ adapter[a].state \in {"live", "calling"}
                      /\ adapter[a].inner = env[e].addr}

\* The RBoxFnOnce calls in progress that were entered with e's address.
Consumers(e) ==
    {a \in Adapters : /\ IsOnce(a)
                      /\ adapter[a].state = "calling"
                      /\ adapter[a].local = env[e].addr}

\* The handle an owning adapter holds its environment by: the stored
\* one, or the one captured by the call that has zeroed the stored one.
HandleOf(a) ==
    IF IsOnce(a) /\ adapter[a].state = "calling"
    THEN adapter[a].local
    ELSE adapter[a].inner

\* Owning adapters that exist and have not released their environment.
Holding(a) ==
    /\ IsOwning(a)
    /\ adapter[a].state \in {"live", "calling"}
    /\ EnvOf(a).state = "live"

LiveHeapEnvs == {e \in Envs : env[e].state = "live" /\ env[e].storage = "heap"}

\* C9 as stated: in every reachable state each live heap-allocated
\* environment is held by the stored handle of exactly one live owning
\* adapter.
C9_Original_HeldByExactlyOne ==
    \A e \in LiveHeapEnvs : Cardinality(Holders(e)) = 1

\* C9 as amended: each live heap-allocated environment is held by the
\* stored handle of at most one live owning adapter, and by exactly one
\* unless an RBoxFnOnce::call is in progress on it; then the stored handle
\* is already 0 and the environment is held by the handle that call
\* captured.  Two owning adapters never refer to the same environment.
C9_HeldByOneAdapterOrItsCall ==
    /\ \A e \in LiveHeapEnvs :
          /\ Cardinality(Holders(e)) <= 1
          /\ Cardinality(Holders(e)) + Cardinality(Consumers(e)) = 1
          /\ \A a \in Holders(e) \cup Consumers(e) : adapter[a].env = e
    /\ \A a \in Adapters, b \in Adapters :
          (a # b /\ Holding(a) /\ Holding(b)) => HandleOf(a) # HandleOf(b)

C9_Witness ==
    \E a \in Adapters, b \in Adapters :
        /\ IsOnce(a) /\ adapter[a].state = "calling"
        /\ adapter[a].env \in LiveHeapEnvs
        /\ Holders(adapter[a].env) = {}
        /\ IsOwning(b) /\ adapter[b].state = "live"
        /\ Holders(adapter[b].env) = {b}

\* C10: for an RBoxFnOnce the stored handle 0 means "already consumed": a
\* constructed adapter that has not been called stores the non-zero
\* address of its environment, and the stored handle is 0 exactly when the
\* call operation has begun.
C10_OnceZeroIffCallBegun ==
    \A a \in Adapters : IsOnce(a) =>
        /\ (adapter[a].inner = Sentinel) <=> (adapter[a].calls >= 1)
        /\ adapter[a].calls = 0 =>
              /\ adapter[a].inner = EnvOf(a).addr
              /\ adapter[a].inner \in Addrs
              /\ adapter[a].inner # Sentinel

C10_Witness ==
    /\ \E a \in Adapters :
          /\ IsOnce(a) /\ adapter[a].state = "live"
          /\ adapter[a].inner # Sentinel
    /\ \E a \in Adapters :
          /\ IsOnce(a) /\ adapter[a].state = "calling"
          /\ adapter[a].inner = Sentinel

\* The parameter and the result of the latest call on a.
LastArg(a) == adapter[a].args[Len(adapter[a].args)]
LastRet(a) == adapter[a].rets[Len(adapter[a].rets)]

\* C11: for each of the five adapters, every wrapped callable and every
\* parameter, a call that returns yields exactly the value a direct
\* invocation of the callable with that parameter, on the captured state
\* the environment had when the call began, would yield -- error values
\* included -- and while the callable runs the value on its way back is
\* that value; the adapter itself never produces a fault or a missing
\* value in place of the callable's result.
C11_CallReturnsWhatCallableReturns ==
    \A a \in Adapters : (Constructed(a) /\ adapter[a].calls > 0) =>
        LET direct == Apply(EnvOf(a).code, adapter[a].seen, LastArg(a))
        IN  /\ adapter[a].state = "calling" => adapter[a].pending = direct.value
            /\ (adapter[a].state # "calling" /\ adapter[a].result = "value") =>
                  /\ LastRet(a) = direct.value
                  /\ LastRet(a).tag \in {"unit", "num", "err", "text"}
            /\ ~ub

C11_Witness ==
    \E a \in Adapters :
        /\ IsOnce(a) /\ adapter[a].state = "dead"
        /\ EnvOf(a).code = "len" /\ EnvOf(a).made = Captured(<<"H">>)
        /\ adapter[a].args = <<Num(1)>>
        /\ adapter[a].rets = <<Num(2)>>

\* Calls made so far through the adapters that were constructed for
\* environment e.
CallsOn(e) ==
    SumCalls({a \in Adapters : Constructed(a) /\ adapter[a].env = e})

\* N times the parameter p.
Times(N, p) == [i \in 1..N |-> p]

\* C12: a callable with an interior-mutable counter that the client keeps
\* and lends is, after N calls through the adapters borrowing it (RRefFn,
\* and RRefFnMut when the borrow is exclusive), in exactly the state N
\* direct invocations leave it in: its counter is N, for every N the bound
\* on calls allows, and that is the state of the owner's own value.
C12_CounterEqualsNumberOfCalls ==
    \A e \in LentEnvs : (env[e].state # "unalloc" /\ env[e].code = "count") =>
        /\ env[e].data = Repeat("count", env[e].made, Times(CallsOn(e), Unit))
        /\ env[e].data.count = CallsOn(e)
        /\ env[e].storage = "ext"

C12_Witness ==
    \E a \in Adapters :
        /\ adapter[a].kind = "RRefFn" /\ adapter[a].state = "dead"
        /\ adapter[a].calls = MaxCalls
        /\ EnvOf(a).state = "live"
        /\ EnvOf(a).data.count = MaxCalls

\* No call on a has ended in a panic.
NoPanic(a) == \A j \in 1..Len(adapter[a].rets) : adapter[a].rets[j] # Panicked

\* C13: an RBoxFnMut that wraps a callable appending its argument to owned
\* text and returning the text: as long as no call panicked, the k-th call
\* returned the initial text followed by the arguments of calls 1..k in
\* call order, the environment holds the initial text followed by all
\* arguments passed so far, and every dispatch was made on the one
\* environment boxed at construction.
C13_MutAccumulatesInCallOrder ==
    \A a \in Adapters :
        (adapter[a].kind = "RBoxFnMut" /\ EnvOf(a).code = "append" /\ NoPanic(a)) =>
            /\ \A k \in 1..Len(adapter[a].rets) :
                  adapter[a].rets[k] =
                      Text(Repeat("append", EnvOf(a).made,
                                  SubSeq(adapter[a].args, 1, k)).text)
            /\ EnvOf(a).data = Repeat("append", EnvOf(a).made, adapter[a].args)
            /\ EnvOf(a).runs = adapter[a].calls
            /\ \A r \in InvocationsBy(trace, a) : r.hit = {adapter[a].env}

C13_Witness ==
    \E a \in Adapters :
        /\ adapter[a].kind = "RBoxFnMut" /\ adapter[a].state = "live"
        /\ EnvOf(a).made = Captured(<<"H">>)
        /\ adapter[a].args = <<Text(<<"!">>), Text(<<"?", "?">>)>>
        /\ adapter[a].rets = <<Text(<<"H", "!">>), Text(<<"H", "!", "?", "?">>)>>

\* Adapters whose call takes &self.
IsShared(a) == adapter[a].kind \in {"RBoxFn", "RRefFn"}

\* Callables whose result is derived from captured state they leave as it is.
ReadOnlyCodes == {"get", "len", "checked"}

\* C14: a call on an RBoxFn or RRefFn, from its start to its end, leaves
\* the stored handle and the function references as they were and leaves
\* the environment unreleased; the environment is live whenever the adapter
\* is; and for a callable whose result is derived from captured state it
\* does not modify, any two calls with the same parameter that returned,
\* returned equal values.
C14_SharedCallLeavesAdapterAndEnv ==
    /\ [](\A a \in Adapters : IsShared(a) =>
            /\ adapter[a].state \in {"live", "calling"} =>
                  /\ EnvOf(a).state = "live"
                  /\ EnvOf(a).releases = 0
                  /\ adapter[a].inner = EnvOf(a).addr
            /\ EnvOf(a).code \in ReadOnlyCodes =>
                  /\ EnvOf(a).data = EnvOf(a).made
                  /\ \A i \in 1..Len(adapter[a].rets), j \in 1..Len(adapter[a].rets) :
                        (/\ adapter[a].args[i] = adapter[a].args[j]
                         /\ adapter[a].rets[i] # Panicked
                         /\ adapter[a].rets[j] # Panicked) =>
                            adapter[a].rets[i] = adapter[a].rets[j])
    /\ [][\A a \in Adapters :
            (/\ IsShared(a)
             /\ adapter[a].state \in {"live", "calling"}
             /\ adapter'[a].state \in {"live", "calling"}) =>
                 /\ adapter'[a].inner = adapter[a].inner
                 /\ adapter'[a].ptr = adapter[a].ptr
                 /\ adapter'[a].caller = adapter[a].caller
                 /\ adapter'[a].remover = adapter[a].remover
                 /\ env'[adapter[a].env].state = "live"
                 /\ env'[adapter[a].env].releases = 0]_vars

C14_Witness ==
    \E a \in Adapters :
        /\ adapter[a].kind = "RBoxFn" /\ adapter[a].state = "live"
        /\ EnvOf(a).code = "get" /\ EnvOf(a).state = "live"
        /\ adapter[a].args = <<Unit, Unit>>
        /\ adapter[a].rets = <<Text(<<"H">>), Text(<<"H">>)>>

\* Invocations of a dispatch function (not of a teardown function).
Dispatches(T) == {r \in T : r.fn.fn \in {"ptr", "caller"}}

\* C15: every invocation of a dispatch function is made on a handle whose
\* environment is, at that moment, live and never released; the
\* environment of an RBoxFn or RBoxFnMut is released by discard alone and
\* a discarded adapter is not called and invokes nothing any more; once
\* the dispatch function of an RBoxFnOnce was invoked, the teardown
\* function is never invoked by that adapter.
C15_NoDispatchOnReleasedEnv ==
    /\ [][\A r \in Dispatches(trace') \ Dispatches(trace) :
            /\ r.hit # {}
            /\ \A e \in r.hit : env[e].state = "live" /\ env[e].releases = 0]_vars
    /\ [](\A a \in Adapters : adapter[a].kind \in {"RBoxFn", "RBoxFnMut"} =>
            /\ EnvOf(a).paths \subseteq {"dropper"}
            /\ EnvOf(a).state = "released" => adapter[a].state = "dead")
    /\ [][\A a \in Adapters :
            (adapter[a].kind \in {"RBoxFn", "RBoxFnMut"} /\ adapter[a].state = "dead") =>
                /\ adapter'[a].state = "dead"
                /\ adapter'[a].calls = adapter[a].calls
                /\ InvocationsBy(trace', a) = InvocationsBy(trace, a)]_vars
    /\ [][\A a \in Adapters :
            (IsOnce(a) /\ Dispatches(InvocationsBy(trace, a)) # {}) =>
                /\ InvocationsBy(trace', a) = InvocationsBy(trace, a)
                /\ adapter'[a].drops = 0]_vars

C15_Witness ==
    \E a \in Adapters, b \in Adapters :
        /\ adapter[a].kind = "RBoxFnMut" /\ adapter[a].state = "dead"
        /\ Dispatches(InvocationsBy(trace, a)) # {}
        /\ EnvOf(a).paths = {"dropper"}
        /\ IsOnce(b) /\ adapter[b].state = "dead"
        /\ Dispatches(InvocationsBy(trace, b)) # {}
        /\ EnvOf(b).state = "released"

\* The callable panicked inside RBoxFnOnce::call on a: the panic went
\* through the call's frame, or ended the process there.
OncePanicked(a) ==
    /\ IsOnce(a)
    /\ \/ adapter[a].result = "panic"
       \/ aborted /\ adapter[a].state = "calling"

\* C16: when the callable panics inside RBoxFnOnce::call, the environment
\* is released at most once and by the dispatch function alone: the
\* stored handle is 0, the teardown function was not invoked, and after
\* the panic has passed through the call's frame the adapter is gone and
\* the environment was released exactly once.
C16_OncePanicReleasesAtMostOnce ==
    \A a \in Adapters : OncePanicked(a) =>
        /\ EnvOf(a).releases <= 1
        /\ EnvOf(a).paths \subseteq {"caller"}
        /\ adapter[a].inner = Sentinel
        /\ adapter[a].drops = 0
        /\ \A r \in InvocationsBy(trace, a) : r.fn.fn = "caller"
        /\ adapter[a].result = "panic" =>
              /\ adapter[a].state = "dead"
              /\ EnvOf(a).releases = 1
              /\ EnvOf(a).state = "released"

C16_Witness ==
    \E a \in Adapters :
        /\ IsOnce(a) /\ adapter[a].result = "panic"
        /\ adapter[a].state = "dead"
        /\ EnvOf(a).releases = 1 /\ adapter[a].drops = 0

TypeOK ==
    /\ \A a \in Adapters : adapter[a].args \in Seq(Params)
    /\ \A a \in Adapters : Len(adapter[a].rets) \in {adapter[a].calls, adapter[a].calls - 1}
    /\ \A e \in Envs : env[e].code \in FnOnceCodes \cup {"none"}
    /\ \A a \in Adapters : adapter[a].state \in {"none", "live", "calling", "dead"}
    /\ \A e \in Envs : env[e].state \in {"unalloc", "live", "released"}
    /\ ub \in BOOLEAN
    /\ aborted \in BOOLEAN

====
